---- MODULE Spec2Model ----
(***************************************************************************)
(* Model of build_plugin.py: one run of main(), which constructs a         *)
(* PluginBuilder and calls build().  The run is a sequential pipeline:     *)
(* check_prerequisites, three stages (install, build, zip) each with a     *)
(* pnpm command and an npm fallback, rename_zip_file, find_crx_file, the   *)
(* report, and sys.exit.                                                   *)
(*                                                                         *)
(* The environment is the project directory (does it exist, does it hold   *)
(* package.json), the content of <project>/output, and the outcome of      *)
(* every subprocess.run call.  Entries of the output directory are regular *)
(* files; the order in which a directory listing enumerates them is not    *)
(* fixed by the program and is chosen anew at every glob.                  *)
(***************************************************************************)
EXTENDS Integers, Sequences, FiniteSets, TLC

VARIABLES
    project_dir_exists,   \* self.project_dir.exists()
    package_json_exists,  \* self.package_json.exists()
    pnpm_query,           \* how "pnpm --version" ends on this machine
    npm_query,            \* how "npm --version" ends on this machine
    outDir,               \* the state of <project>/output
    pc,                   \* the position of the run
    prereq,               \* what check_prerequisites returned
    buildResult,          \* what build() returned
    exitStatus,           \* exit status of the process, -1 while it runs
    log,                  \* the external commands invoked so far, in order
    lastOutcome,          \* how the latest stage command ended
    zip_file,             \* what rename_zip_file returned
    crx_file,             \* self.crx_file
    renameRan,            \* rename_zip_file has run
    dirAtRename           \* the output directory as rename_zip_file found it

env == <<project_dir_exists, package_json_exists, pnpm_query, npm_query>>

vars == <<project_dir_exists, package_json_exists, pnpm_query, npm_query, outDir,
          pc, prereq, buildResult, exitStatus, log, lastOutcome, zip_file,
          crx_file, renameRan, dirAtRename>>

(***************************************************************************)
(* Bounds.                                                                 *)
(***************************************************************************)
\* distinct file contents told apart by the model (0 stands for "no file")
NumContents == 2

(***************************************************************************)
(* The output directory.                                                   *)
(***************************************************************************)
\* new_zip = self.output_dir / "TLS-Social-Media.zip"
TargetZip == [stem |-> "TLS-Social-Media", suffix |-> ".zip"]

\* the file names the output directory may hold: the target, two other
\* archives, one installable package (also the non-archive file)
Names == { TargetZip,
           [stem |-> "foo", suffix |-> ".zip"],
           [stem |-> "bar", suffix |-> ".zip"],
           [stem |-> "ext", suffix |-> ".crx"] }

\* Python's None as the value returned when no path is found
NoPath == [stem |-> "", suffix |-> ""]

NoFiles == [n \in Names |-> 0]

\* the states of <project>/output: absent, or a directory holding files
DirStates == { [exists |-> FALSE, files |-> NoFiles] }
             \cup { [exists |-> TRUE, files |-> f] : f \in [Names -> 0..NumContents] }

\* Path.exists() of a file of the output directory
FileExists(d, n) == d.exists /\ d.files[n] # 0

\* self.output_dir.glob("*" + suffix): the names that match, as a set
Glob(d, suffix) == { n \in Names : FileExists(d, n) /\ n.suffix = suffix }

\* the orders in which a directory listing may enumerate the set S
Enumerations(S) ==
    { s \in [1..Cardinality(S) -> S] : \A i, j \in 1..Cardinality(S) : s[i] = s[j] => i = j }

\* Path.unlink()
Unlink(files, n) == [files EXCEPT ![n] = 0]

\* Rename as a copy: the file stays under its old name too
Rename_KeepsOld(files, old, new) == [files EXCEPT ![new] = files[old]]

\* Path.rename(target)
Rename(files, old, new) == [files EXCEPT ![new] = files[old], ![old] = 0]

\* rename_zip_file that returns the target path without renaming anything
rename_zip_file_NoRename(d, zip_files) ==
    IF ~d.exists THEN [ret |-> NoPath, dir |-> d]
    ELSE IF zip_files = <<>> THEN [ret |-> NoPath, dir |-> d]
    ELSE [ret |-> TargetZip, dir |-> d]

\* rename_zip_file without the check for an empty list of archives
rename_zip_file_NoEmptyCheck(d, zip_files) ==
    IF ~d.exists THEN [ret |-> NoPath, dir |-> d]
    ELSE IF zip_files = <<>> THEN [ret |-> TargetZip, dir |-> d]
    ELSE LET old_zip == zip_files[1]
             new_zip == TargetZip
         IN  IF old_zip = new_zip THEN [ret |-> new_zip, dir |-> d]
             ELSE [ret |-> new_zip,
                   dir |-> [d EXCEPT !.files =
                              [d.files EXCEPT ![new_zip] = d.files[old_zip], ![old_zip] = 0]]]

\* rename_zip_file, given the list zip_files the glob produced
rename_zip_file(d, zip_files) ==
    IF ~d.exists THEN [ret |-> NoPath, dir |-> d]
    ELSE IF zip_files = <<>> THEN [ret |-> NoPath, dir |-> d]
    ELSE LET old_zip == zip_files[1]
             new_zip == TargetZip
         IN  IF old_zip = new_zip THEN [ret |-> new_zip, dir |-> d]
             ELSE LET f1 == IF FileExists(d, new_zip) THEN Unlink(d.files, new_zip)
                                                      ELSE d.files
                  IN  [ret |-> new_zip,
                       dir |-> [d EXCEPT !.files = Rename(f1, old_zip, new_zip)]]

\* find_crx_file, given the enumeration the glob produced
find_crx_file(d, crx_files) ==
    IF ~d.exists THEN NoPath
    ELSE IF crx_files = <<>> THEN NoPath
    ELSE crx_files[1]

\* what one external stage command may do to the output directory: nothing,
\* create or remove the directory, write or remove one file
CommandEffects(d) ==
    {d}
    \cup { [exists |-> TRUE, files |-> d.files] }
    \cup { [exists |-> FALSE, files |-> NoFiles] }
    \cup { [exists |-> TRUE, files |-> [d.files EXCEPT ![n] = c]] :
              n \in Names, c \in 0..NumContents }

(***************************************************************************)
(* External commands.                                                      *)
(***************************************************************************)
\* how a subprocess.run call can end: exit status 0, non-zero exit status,
\* TimeoutExpired, FileNotFoundError, any other exception
Outcomes == {"ok", "nonzero", "timeout", "absent", "oserror"}

\* a version query of check_prerequisites: return True on exit status 0,
\* go on after a non-zero status or the caught FileNotFoundError, and let
\* every other exception propagate
VersionQuery(o) ==
    IF o = "ok" THEN "True"
    ELSE IF o \in {"nonzero", "absent"} THEN "continue"
    ELSE "raise"

\* run_command that takes a timeout for a success
run_command_TimeoutOk(o) == o \in {"ok", "timeout"}

\* run_command: True on exit status 0, False on a non-zero status, on
\* TimeoutExpired and on any other exception
run_command(o) == o = "ok"

\* an exit status that ignores the result of build()
ExitCode_AlwaysZero(success) == 0

\* sys.exit(0 if success else 1)
ExitCode(success) == IF success THEN 0 ELSE 1

\* exit status of the interpreter when an exception escapes main()
UncaughtExit == 1

Entry(cmd, ok) == [cmd |-> cmd, ok |-> ok]

(***************************************************************************)
(* Initial state: the builder is constructed, build() is about to run.     *)
(***************************************************************************)
Init ==
    /\ project_dir_exists \in BOOLEAN
    /\ package_json_exists \in BOOLEAN
    /\ package_json_exists => project_dir_exists
    /\ pnpm_query \in Outcomes
    /\ npm_query \in Outcomes
    /\ outDir \in DirStates
    /\ outDir.exists => project_dir_exists
    /\ pc = "check_project"
    /\ prereq = "pending"
    /\ buildResult = "pending"
    /\ exitStatus = -1
    /\ log = <<>>
    /\ lastOutcome = "none"
    /\ zip_file = NoPath
    /\ crx_file = NoPath
    /\ renameRan = FALSE
    /\ dirAtRename = [exists |-> FALSE, files |-> NoFiles]

(***************************************************************************)
(* check_prerequisites.                                                    *)
(***************************************************************************)
\* the existence checks without the one for package.json
CheckProject_NoManifestCheck ==
    /\ pc = "check_project"
    /\ IF ~project_dir_exists
       THEN /\ prereq' = "False"
            /\ buildResult' = "False"
            /\ pc' = "returned"
       ELSE /\ pc' = "query_pnpm"
            /\ UNCHANGED <<prereq, buildResult>>
    /\ UNCHANGED <<env, outDir, exitStatus,
                   log, lastOutcome, zip_file, crx_file, renameRan, dirAtRename>>

\* the two existence checks; a failed check makes build() return False
CheckProject ==
    /\ pc = "check_project"
    /\ IF ~project_dir_exists \/ ~package_json_exists
       THEN /\ prereq' = "False"
            /\ buildResult' = "False"
            /\ pc' = "returned"
       ELSE /\ pc' = "query_pnpm"
            /\ UNCHANGED <<prereq, buildResult>>
    /\ UNCHANGED <<env, outDir, exitStatus,
                   log, lastOutcome, zip_file, crx_file, renameRan, dirAtRename>>

\* an exception that leaves check_prerequisites leaves build() and main()
Escapes ==
    /\ prereq' = "raised"
    /\ buildResult' = "raised"
    /\ exitStatus' = UncaughtExit
    /\ pc' = "exited"

QueryPnpm ==
    /\ pc = "query_pnpm"
    /\ LET o == pnpm_query IN
         /\ log' = Append(log, Entry("pnpm --version", o = "ok"))
         /\ CASE VersionQuery(o) = "True" ->
                   /\ prereq' = "True"
                   /\ pc' = "install"
                   /\ UNCHANGED <<buildResult, exitStatus>>
              [] VersionQuery(o) = "continue" ->
                   /\ pc' = "query_npm"
                   /\ UNCHANGED <<prereq, buildResult, exitStatus>>
              [] OTHER -> Escapes
    /\ UNCHANGED <<env, outDir, lastOutcome,
                   zip_file, crx_file, renameRan, dirAtRename>>

QueryNpm ==
    /\ pc = "query_npm"
    /\ LET o == npm_query IN
         /\ log' = Append(log, Entry("npm --version", o = "ok"))
         /\ CASE VersionQuery(o) = "True" ->
                   /\ prereq' = "True"
                   /\ pc' = "install"
                   /\ UNCHANGED <<buildResult, exitStatus>>
              [] VersionQuery(o) = "continue" ->
                   /\ prereq' = "False"
                   /\ buildResult' = "False"
                   /\ pc' = "returned"
                   /\ UNCHANGED exitStatus
              [] OTHER -> Escapes
    /\ UNCHANGED <<env, outDir, lastOutcome,
                   zip_file, crx_file, renameRan, dirAtRename>>

(***************************************************************************)
(* The three stages of build().                                            *)
(***************************************************************************)
\* a primary command: on True go to the next step, on False to the fallback
Primary(here, cmd, fallback, next) ==
    /\ pc = here
    /\ \E o \in Outcomes, d \in CommandEffects(outDir) :
         /\ lastOutcome' = o
         /\ outDir' = d
         /\ log' = Append(log, Entry(cmd, run_command(o)))
         /\ pc' = IF run_command(o) THEN next ELSE fallback
    /\ UNCHANGED <<env, prereq, buildResult,
                   exitStatus, zip_file, crx_file, renameRan, dirAtRename>>

\* a fallback whose failure is ignored: the run goes on to the next step
Fallback_ContinuesOnFailure(here, cmd, next) ==
    /\ pc = here
    /\ \E o \in Outcomes, d \in CommandEffects(outDir) :
         /\ lastOutcome' = o
         /\ outDir' = d
         /\ log' = Append(log, Entry(cmd, run_command(o)))
         /\ pc' = next
    /\ UNCHANGED <<env, prereq, buildResult,
                   exitStatus, zip_file, crx_file, renameRan, dirAtRename>>

\* a fallback whose success is ignored: build() returns False either way
Fallback_AlwaysAborts(here, cmd, next) ==
    /\ pc = here
    /\ \E o \in Outcomes, d \in CommandEffects(outDir) :
         /\ lastOutcome' = o
         /\ outDir' = d
         /\ log' = Append(log, Entry(cmd, run_command(o)))
         /\ pc' = "returned"
         /\ buildResult' = "False"
    /\ UNCHANGED <<env, prereq,
                   exitStatus, zip_file, crx_file, renameRan, dirAtRename>>

\* a fallback command: on True go to the next step, on False build()
\* returns False
Fallback(here, cmd, next) ==
    /\ pc = here
    /\ \E o \in Outcomes, d \in CommandEffects(outDir) :
         /\ lastOutcome' = o
         /\ outDir' = d
         /\ log' = Append(log, Entry(cmd, run_command(o)))
         /\ IF run_command(o)
            THEN pc' = next /\ UNCHANGED buildResult
            ELSE pc' = "returned" /\ buildResult' = "False"
    /\ UNCHANGED <<env, prereq,
                   exitStatus, zip_file, crx_file, renameRan, dirAtRename>>

InstallPrimary == Primary("install", "pnpm install", "install_fb", "build")
InstallFallback == Fallback("install_fb", "npm install", "build")
BuildPrimary == Primary("build", "pnpm build", "build_fb", "zip")
BuildFallback == Fallback("build_fb", "npm run build", "zip")
ZipPrimary == Primary("zip", "pnpm zip", "zip_fb", "rename")
ZipFallback == Fallback("zip_fb", "npm run zip", "rename")

(***************************************************************************)
(* Rename, discovery, report, exit.                                        *)
(***************************************************************************)
RenameZipFile ==
    /\ pc = "rename"
    /\ \E zip_files \in Enumerations(Glob(outDir, ".zip")) :
         LET r == rename_zip_file(outDir, zip_files)
         IN  /\ zip_file' = r.ret
             /\ outDir' = r.dir
    /\ dirAtRename' = outDir
    /\ renameRan' = TRUE
    /\ pc' = "find_crx"
    /\ UNCHANGED <<env, prereq, buildResult,
                   exitStatus, log, lastOutcome, crx_file>>

FindCrxFile ==
    /\ pc = "find_crx"
    /\ \E crx_files \in Enumerations(Glob(outDir, ".crx")) :
         crx_file' = find_crx_file(outDir, crx_files)
    /\ pc' = "report"
    /\ UNCHANGED <<env, outDir, prereq,
                   buildResult, exitStatus, log, lastOutcome, zip_file,
                   renameRan, dirAtRename>>

\* the summary is printed and build() returns True
Report ==
    /\ pc = "report"
    /\ buildResult' = "True"
    /\ pc' = "returned"
    /\ UNCHANGED <<env, outDir, prereq,
                   exitStatus, log, lastOutcome, zip_file, crx_file,
                   renameRan, dirAtRename>>

\* main: sys.exit(0 if success else 1)
MainExit ==
    /\ pc = "returned"
    /\ exitStatus' = ExitCode(buildResult = "True")
    /\ pc' = "exited"
    /\ UNCHANGED <<env, outDir, prereq,
                   buildResult, log, lastOutcome, zip_file, crx_file,
                   renameRan, dirAtRename>>

Next ==
    \/ CheckProject
    \/ QueryPnpm
    \/ QueryNpm
    \/ InstallPrimary
    \/ InstallFallback
    \/ BuildPrimary
    \/ BuildFallback
    \/ ZipPrimary
    \/ ZipFallback
    \/ RenameZipFile
    \/ FindCrxFile
    \/ Report
    \/ MainExit

Spec == Init /\ [][Next]_vars

TypeOK ==
    /\ outDir \in DirStates
    /\ pc \in {"check_project", "query_pnpm", "query_npm", "install", "install_fb",
               "build", "build_fb", "zip", "zip_fb", "rename", "find_crx",
               "report", "returned", "exited"}
    /\ prereq \in {"pending", "True", "False", "raised"}
    /\ buildResult \in {"pending", "True", "False", "raised"}
    /\ exitStatus \in {-1, 0, 1}
    /\ lastOutcome \in Outcomes \cup {"none"}
    /\ zip_file \in Names \cup {NoPath}
    /\ crx_file \in Names \cup {NoPath}

(***************************************************************************)
(* Vocabulary of the properties.                                           *)
(***************************************************************************)
Stages == {"install", "build", "zip"}

\* the pnpm command of a stage
PrimaryCmd(S) ==
    CASE S = "install" -> "pnpm install"
      [] S = "build" -> "pnpm build"
      [] S = "zip" -> "pnpm zip"

\* the npm command of a stage
FallbackCmd(S) ==
    CASE S = "install" -> "npm install"
      [] S = "build" -> "npm run build"
      [] S = "zip" -> "npm run zip"

StageCmds == {PrimaryCmd(S) : S \in Stages} \cup {FallbackCmd(S) : S \in Stages}

\* the command was invoked and run_command returned ok for it
Ran(cmd, ok) == \E i \in 1..Len(log) : log[i] = Entry(cmd, ok)
Invoked(cmd) == \E i \in 1..Len(log) : log[i].cmd = cmd

StageSucceeded(S) == Ran(PrimaryCmd(S), TRUE) \/ Ran(FallbackCmd(S), TRUE)
StageFailed(S) == Ran(PrimaryCmd(S), FALSE) /\ Ran(FallbackCmd(S), FALSE)

\* the stages after S, and what follows the whole stage S in build()
LaterStages(S) ==
    CASE S = "install" -> {"build", "zip"}
      [] S = "build" -> {"zip"}
      [] S = "zip" -> {}

Finished == pc = "exited"
Succeeded == pc = "exited" /\ exitStatus = 0
ZipsAtRename == Glob(dirAtRename, ".zip")

(***************************************************************************)
(* C1.  A run on a project directory without package.json fails            *)
(* (check_prerequisites and build() return False, exit status 1) and       *)
(* invokes no external command at all.                                     *)
(***************************************************************************)
C1_NoManifestNoCommand ==
    ~package_json_exists =>
        /\ log = <<>>
        /\ pc # "check_project" => prereq = "False" /\ buildResult = "False"
        /\ pc \in {"check_project", "returned", "exited"}
        /\ Finished => exitStatus = 1
        /\ exitStatus # 0

C1_Witness == ~package_json_exists /\ project_dir_exists /\ Finished /\ exitStatus = 1

(***************************************************************************)
(* C2.  If neither pnpm nor npm answers its version query successfully,    *)
(* whatever the reason (absent, non-zero status, timeout), then            *)
(* check_prerequisites returns False and the run ends with exit status 1   *)
(* without any install, build or package command.                          *)
(***************************************************************************)
NoManagerAnswers ==
    /\ project_dir_exists /\ package_json_exists
    /\ pnpm_query \in {"nonzero", "timeout", "absent"}
    /\ npm_query \in {"nonzero", "timeout", "absent"}

C2_NoManagerReturnsFalse ==
    NoManagerAnswers =>
        /\ \A c \in StageCmds : ~Invoked(c)
        /\ Finished => prereq = "False" /\ exitStatus = 1

(***************************************************************************)
(* C3.  When both commands of a stage fail, the run aborts with failure:   *)
(* nothing is invoked after the failed fallback, no later stage runs, the  *)
(* rename step never runs, build() returns False and the exit status is 1. *)
(***************************************************************************)
C3_FailedStageAborts ==
    \A S \in Stages :
        StageFailed(S) =>
            /\ log[Len(log)] = Entry(FallbackCmd(S), FALSE)
            /\ \A T \in LaterStages(S) : ~Invoked(PrimaryCmd(T)) /\ ~Invoked(FallbackCmd(T))
            /\ ~renameRan
            /\ pc \in {"returned", "exited"}
            /\ buildResult = "False"
            /\ Finished => exitStatus = 1

C3_Witness == StageFailed("build") /\ Finished

(***************************************************************************)
(* C4.  When the primary command of a stage fails and its fallback         *)
(* succeeds, the run continues with the next step exactly as after a       *)
(* successful primary: install is followed by pnpm build, build by pnpm    *)
(* zip, zip by the rename step.                                            *)
(***************************************************************************)
\* the run is at the step that follows stage S, or beyond it
ContinuedAfter(S) ==
    CASE S = "install" -> pc = "build" \/ Invoked("pnpm build")
      [] S = "build" -> pc = "zip" \/ Invoked("pnpm zip")
      [] S = "zip" -> pc = "rename" \/ renameRan

C4_FallbackSuccessContinues ==
    \A S \in Stages :
        /\ StageSucceeded(S) => ContinuedAfter(S)
        /\ Ran(PrimaryCmd(S), FALSE) /\ Ran(FallbackCmd(S), TRUE) =>
              /\ ContinuedAfter(S)
              /\ buildResult # "False" \/ \E T \in LaterStages(S) : StageFailed(T)

C4_Witness ==
    /\ Ran("pnpm install", FALSE) /\ Ran("npm install", TRUE)
    /\ Invoked("pnpm build")

(***************************************************************************)
(* C5.  (as stated) Whenever a run ends with success, the file             *)
(* output/TLS-Social-Media.zip exists at the end of the run, whatever the  *)
(* output directory held after the package stage.                          *)
(***************************************************************************)
C5_SuccessImpliesTarget == Succeeded => FileExists(outDir, TargetZip)

(***************************************************************************)
(* C5.  (amended) Whenever a run ends with success and the output          *)
(* directory held at least one .zip file when the rename step ran,         *)
(* output/TLS-Social-Media.zip exists at the end of the run; when it was   *)
(* absent or held no .zip file, the run succeeds without that file.        *)
(***************************************************************************)
C5_SuccessWithArchiveImpliesTarget ==
    Succeeded =>
        /\ ZipsAtRename # {} => FileExists(outDir, TargetZip) /\ zip_file = TargetZip
        /\ ZipsAtRename = {} => ~FileExists(outDir, TargetZip)

C5_Witness ==
    /\ Succeeded
    /\ Cardinality(ZipsAtRename) >= 2
    /\ ~FileExists(dirAtRename, TargetZip)
    /\ FileExists(outDir, TargetZip)

(***************************************************************************)
(* C6.  With TLS-Social-Media.zip and one other .zip file in the output    *)
(* directory, rename_zip_file replaces the former by the latter in every   *)
(* enumeration order: the other name is gone and TLS-Social-Media.zip      *)
(* holds the other file's content.                                         *)
(***************************************************************************)
C6_StaleTargetReplaced ==
    \A o \in Names \ {TargetZip} :
        renameRan /\ ZipsAtRename = {TargetZip, o} =>
            /\ ~FileExists(outDir, o)
            /\ outDir.files[TargetZip] = dirAtRename.files[o]

(***************************************************************************)
(* C7.  With exactly one .zip file in the output directory, under a name   *)
(* other than the target, the rename step leaves that file under the name  *)
(* TLS-Social-Media.zip with its content unchanged, the original name is   *)
(* gone, every non-.zip file is untouched, and so it is at the end of a    *)
(* successful run.                                                         *)
(***************************************************************************)
C7_SingleArchiveRenamed ==
    \A o \in Names \ {TargetZip} :
        renameRan /\ ZipsAtRename = {o} =>
            /\ outDir.exists
            /\ outDir.files[TargetZip] = dirAtRename.files[o]
            /\ outDir.files[o] = 0
            /\ \A n \in Names : n.suffix # ".zip" => outDir.files[n] = dirAtRename.files[n]
            /\ zip_file = TargetZip

C7_Witness ==
    /\ Succeeded
    /\ ZipsAtRename = {[stem |-> "foo", suffix |-> ".zip"]}
    /\ dirAtRename.files[[stem |-> "foo", suffix |-> ".zip"]] = 2
    /\ dirAtRename.files[[stem |-> "ext", suffix |-> ".crx"]] = 1

(***************************************************************************)
(* C8.  When the output directory is absent or holds no .zip file,         *)
(* rename_zip_file returns None, changes nothing in the filesystem, raises *)
(* no error, and the run ends with success.                                *)
(***************************************************************************)
C8_NoArchiveNoChange ==
    renameRan /\ (~dirAtRename.exists \/ ZipsAtRename = {}) =>
        /\ zip_file = NoPath
        /\ outDir = dirAtRename
        /\ pc \in {"find_crx", "report", "returned", "exited"}
        /\ buildResult \in {"pending", "True"}
        /\ pc \in {"returned", "exited"} => buildResult = "True"
        /\ Finished => exitStatus = 0

C8_Witness ==
    /\ Succeeded
    /\ renameRan
    /\ dirAtRename.exists
    /\ ZipsAtRename = {}
    /\ FileExists(dirAtRename, [stem |-> "ext", suffix |-> ".crx"])

C8_WitnessAbsent == Succeeded /\ renameRan /\ ~dirAtRename.exists

(***************************************************************************)
(* C9.  The exit status is 0 exactly when check_prerequisites passed and   *)
(* every stage succeeded by its primary or its fallback command; in every  *)
(* other run it is 1.  Once the package stage has succeeded the run ends   *)
(* with success whatever artifacts are found.                              *)
(***************************************************************************)
PipelineSucceeded == prereq = "True" /\ \A S \in Stages : StageSucceeded(S)

C9_ExitStatus ==
    /\ Finished => exitStatus \in {0, 1}
    /\ Finished => (exitStatus = 0 <=> PipelineSucceeded)
    /\ ~Finished => exitStatus = -1
    /\ StageSucceeded("zip") =>
          /\ PipelineSucceeded
          /\ pc \in {"rename", "find_crx", "report", "returned", "exited"}
          /\ buildResult \in {"pending", "True"}
          /\ pc \in {"returned", "exited"} => buildResult = "True"

C9_Witness ==
    /\ Succeeded
    /\ Ran("pnpm zip", FALSE) /\ Ran("npm run zip", TRUE)
    /\ zip_file = NoPath /\ crx_file = NoPath

C9_WitnessFailure == Finished /\ exitStatus = 1 /\ prereq = "True"

(***************************************************************************)
(* C10.  Each stage invokes at most two commands, pnpm first and npm       *)
(* second; the npm command is invoked if and only if the pnpm command of   *)
(* the same stage failed (non-zero status, timeout and absent executable   *)
(* alike); the order does not depend on the package manager the            *)
(* precondition check found; a run invokes at most six stage commands.     *)
(***************************************************************************)
StageIndexes == { i \in 1..Len(log) : log[i].cmd \in StageCmds }

\* the position at which the fallback of stage S is about to be invoked
FallbackPc(S) ==
    CASE S = "install" -> "install_fb"
      [] S = "build" -> "build_fb"
      [] S = "zip" -> "zip_fb"

C10_PrimaryThenFallback ==
    /\ Cardinality(StageIndexes) <= 6
    /\ \A i, j \in StageIndexes : log[i].cmd = log[j].cmd => i = j
    /\ \A S \in Stages : \A i \in 1..Len(log) :
          /\ log[i].cmd = FallbackCmd(S) =>
                i > 1 /\ log[i-1] = Entry(PrimaryCmd(S), FALSE)
          /\ log[i] = Entry(PrimaryCmd(S), FALSE) =>
                IF i < Len(log) THEN log[i+1].cmd = FallbackCmd(S)
                                ELSE pc = FallbackPc(S)
          /\ log[i] = Entry(PrimaryCmd(S), TRUE) => ~Invoked(FallbackCmd(S))
    /\ StageIndexes # {} =>
          /\ \E i \in StageIndexes : log[i].cmd = "pnpm install" /\ \A j \in StageIndexes : i <= j
          /\ log[Len(log)].ok = (lastOutcome = "ok")
          /\ lastOutcome \in {"nonzero", "timeout", "absent", "oserror"} => ~log[Len(log)].ok

C10_Witness ==
    /\ Ran("npm --version", TRUE)
    /\ Cardinality(StageIndexes) = 6
    /\ lastOutcome = "timeout"
====
